---- MODULE Spec2Model ----
(***************************************************************************)
(* Model of create_report.py: the daily macro morning brief.               *)
(*                                                                         *)
(* main() is a single sequential procedure.  It is cut at its external     *)
(* calls (get_snapshot, fetch_topic, the chat-completion call inside       *)
(* _summarize_points, the file write); pc names the position of control.   *)
(* An uncaught Python exception ends the run: pc = "aborted" and failure   *)
(* names the call that raised.                                             *)
(*                                                                         *)
(* Strings whose content the code inspects (summary fields, URLs) are      *)
(* sequences of chunks, so that concatenation and substring search are     *)
(* computed and not assumed.                                               *)
(***************************************************************************)
EXTENDS Integers, Sequences, FiniteSets, TLC

VARIABLES
    pc,               \* position of control in main()
    failure,          \* "none", or the call whose exception left main()
    APPEND_STALE,     \* module configuration (line 20)
    MAX_TOP_SECTIONS, \* module configuration (line 21)
    snapshot_md,      \* line 96
    ti,               \* index of the next topic of "for topic in TOPICS"
    bundles,          \* line 102
    engine_stats,     \* line 103
    selected,         \* line 128
    bi,               \* index of the next bundle of the loop at 133 / 191
    sections,         \* line 130
    appendix_items,   \* line 131
    LLM_USED,         \* line 99
    summary,          \* the last value returned by _summarize_points
    llm_calls,        \* the chat-completion requests issued, in order
    fetch_calls,      \* the topics fetch_topic was called with, in order
    buckets,          \* line 107: what the last fetch_topic call returned
    report,           \* the written file: <<>> until line 213
    resp              \* the model response under test (extractor specification)

vars == <<pc, failure, APPEND_STALE, MAX_TOP_SECTIONS, snapshot_md, ti, bundles,
          engine_stats, selected, bi, sections, appendix_items, LLM_USED,
          summary, llm_calls, fetch_calls, report, resp, buckets>>

----------------------------------------------------------------------------
(* Bounds of the model *)

\* largest configured MAX_TOP_SECTIONS explored
MaxTop == 2
\* longest "recent" bucket the article source returns
MaxRecent == 3
\* longest "stale" bucket the article source returns
MaxStale == 4
\* longest "recent" bucket handed to the topic bundler under test
MaxSortLen == 3
\* most bundles handed to the topic selector under test
MaxBundles == 4

----------------------------------------------------------------------------
(* Configuration and data *)

\* topics_list.MACRO_KEYWORDS, two topics standing for the configured list
TOPICS == <<"Fed Rate", "Oil Prices">>

None == [t |-> "None"]

Min(a, b) == IF a <= b THEN a ELSE b

\* seq[:n]
Take(seq, n) == SubSeq(seq, 1, Min(n, Len(seq)))

\* seq[n:]
Drop(seq, n) == SubSeq(seq, Min(n, Len(seq)) + 1, Len(seq))

\* relevance scores of the article universe, by article number
ScoreTable == <<3, 9, 0, 3, 5, 9, 0>>

\* published_at of the article universe: every other article carries a timestamp
PublishedAt(i) ==
    IF i % 2 = 1 THEN [t |-> "datetime", y |-> "2025", m |-> "09", d |-> "18"]
    ELSE None

\* URLs of the article universe, as chunks: a dated path with "/" separators,
\* a dated path with "-" separators, a path whose date segment is not closed
\* by "/", and an undated path
UrlOf(i) ==
    CASE i % 4 = 0 -> <<"https://ex.com", "/", "2025", "/", "09", "/", "17", "/", "story", ToString(i)>>
      [] i % 4 = 1 -> <<"https://ex.com", "/", "news", "/", "story", ToString(i)>>
      [] i % 4 = 2 -> <<"https://ex.com", "/", "2025", "-", "09", "-", "16", "/", "story", ToString(i)>>
      [] OTHER     -> <<"https://ex.com", "/", "2025", "/", "09", "/", "15", "story", ToString(i)>>

\* news_fetch.Article
Article(i) ==
    [title        |-> <<"title", ToString(i)>>,
     url          |-> UrlOf(i),
     source       |-> <<"src", ToString(i % 2)>>,
     published_at |-> PublishedAt(i),
     score        |-> ScoreTable[((i - 1) % Len(ScoreTable)) + 1]]

\* articles i, i+1, ..., i+n-1
ArticleRun(i, n) == [k \in 1..n |-> Article(i + k - 1)]

\* what fetch_topic may return for the k-th topic: a prefix of the topic's
\* recent candidates (articles 2k-1, 2k, ...) and a prefix of its stale
\* candidates (articles 2k, 2k+1, ...).  Candidates of neighbouring topics
\* overlap, and a topic's stale candidates overlap its recent ones.
FetchResults(k) ==
    { [recent |-> ArticleRun(2 * k - 1, n), stale |-> ArticleRun(2 * k, m)] :
        n \in 0..MaxRecent, m \in 0..MaxStale }

----------------------------------------------------------------------------
(* _date_from_url and the appendix entry *)

Years20 == {"2024", "2025"}
TwoDigits == {"09", "15", "16", "17", "18"}
Separators == {"-", "/"}

\* re.search(r"/(20\d{2})[-/](\d{2})[-/](\d{2})/", url) matches at chunk i
DateMatchAt(url, i) ==
    /\ i + 6 <= Len(url)
    /\ url[i] = "/"
    /\ url[i + 1] \in Years20
    /\ url[i + 2] \in Separators
    /\ url[i + 3] \in TwoDigits
    /\ url[i + 4] \in Separators
    /\ url[i + 5] \in TwoDigits
    /\ url[i + 6] = "/"

_date_from_url(url) ==
    LET hits == {i \in 1..Len(url) : DateMatchAt(url, i)} IN
    IF hits # {}
    THEN LET i == CHOOSE j \in hits : \A h \in hits : j <= h
         IN  [t |-> "str", s |-> <<url[i + 1], "-", url[i + 3], "-", url[i + 5]>>]
    ELSE None

\* a.published_at.date().isoformat()
isoformat(ts) == [t |-> "str", s |-> <<ts.y, "-", ts.m, "-", ts.d>>]

\* the dict appended at lines 153-158, 174-179, 183-188 and 197-202
AppendixItem(a) ==
    [title |-> a.title,
     url   |-> a.url,
     date  |-> IF a.published_at # None THEN isoformat(a.published_at)
               ELSE _date_from_url(a.url),
     label |-> a.source]

\* line 45: the date written into a bullet of the extraction request
PromptDate(a) ==
    IF a.published_at # None THEN isoformat(a.published_at)
    ELSE [t |-> "str", s |-> <<"n/a">>]

\* lines 43-47 on articles[:3]: the dates of the bullets, in order
PromptDates(articles) == [k \in 1..Len(articles) |-> PromptDate(articles[k])]

AppendixItems(articles) == [k \in 1..Len(articles) |-> AppendixItem(articles[k])]

Titles(articles) == [k \in 1..Len(articles) |-> articles[k].title]

----------------------------------------------------------------------------
(* sorted(..., reverse=True) and list.sort(reverse=True): stable, descending *)

\* seq with x placed behind every element whose key is at least x's;
\* the key of an element is its field `key`
InsertDesc(seq, x, key) ==
    LET ahead == {i \in 1..Len(seq) : seq[i][key] >= x[key]}
        n     == IF ahead = {} THEN 0 ELSE CHOOSE i \in ahead : \A j \in ahead : j <= i
    IN  SubSeq(seq, 1, n) \o <<x>> \o SubSeq(seq, n + 1, Len(seq))

\* a descending sort that is not stable: x goes ahead of the elements of equal key
InsertDescUnstable(seq, x, key) ==
    LET ahead == {i \in 1..Len(seq) : seq[i][key] > x[key]}
        n     == IF ahead = {} THEN 0 ELSE CHOOSE i \in ahead : \A j \in ahead : j <= i
    IN  SubSeq(seq, 1, n) \o <<x>> \o SubSeq(seq, n + 1, Len(seq))

RECURSIVE SortDescUnstable(_, _)
SortDescUnstable(seq, key) ==
    IF seq = <<>> THEN <<>>
    ELSE InsertDescUnstable(SortDescUnstable(SubSeq(seq, 1, Len(seq) - 1), key),
                            seq[Len(seq)], key)

RECURSIVE SortDesc(_, _)
SortDesc(seq, key) ==
    IF seq = <<>> THEN <<>>
    ELSE InsertDesc(SortDesc(SubSeq(seq, 1, Len(seq) - 1), key), seq[Len(seq)], key)

\* lines 116-124 with a sort that reverses ties
MakeBundle_unstable(topic, fetched) ==
    LET recent_sorted == SortDescUnstable(fetched.recent, "score") IN
    [topic         |-> topic,
     recent_sorted |-> recent_sorted,
     stale         |-> fetched.stale,
     topic_score   |-> IF recent_sorted # <<>> THEN recent_sorted[1].score ELSE 0]

\* lines 116-124 with the sort left out
MakeBundle_unsorted(topic, fetched) ==
    [topic         |-> topic,
     recent_sorted |-> fetched.recent,
     stale         |-> fetched.stale,
     topic_score   |-> IF fetched.recent # <<>> THEN fetched.recent[1].score ELSE 0]

\* lines 116-124 with topic_score read from the unsorted list
MakeBundle_score_of_first(topic, fetched) ==
    [topic         |-> topic,
     recent_sorted |-> SortDesc(fetched.recent, "score"),
     stale         |-> fetched.stale,
     topic_score   |-> IF fetched.recent # <<>> THEN fetched.recent[1].score ELSE 0]

\* lines 116-124: the bundle of one topic
MakeBundle(topic, fetched) ==
    LET recent_sorted == SortDesc(fetched.recent, "score") IN
    [topic         |-> topic,
     recent_sorted |-> recent_sorted,
     stale         |-> fetched.stale,
     topic_score   |-> IF recent_sorted # <<>> THEN recent_sorted[1].score ELSE 0]

\* line 127 with a sort that reverses ties
SortBundles_unstable(bs) == SortDescUnstable(bs, "topic_score")

\* line 127 left out: the bundles stay in configuration order
SortBundles_unsorted(bs) == bs

\* line 127 without reverse=True
SortBundles_ascending(bs) ==
    LET d == SortDescUnstable(bs, "topic_score") IN [k \in 1..Len(d) |-> d[Len(d) + 1 - k]]

\* line 127
SortBundles(bs) == SortDesc(bs, "topic_score")

\* line 128: bundles[:MAX_TOP_SECTIONS]
SelectTop(bs, k) == Take(bs, k)

\* line 191: bundles[MAX_TOP_SECTIONS:]
Overflow(bs, k) == Drop(bs, k)

----------------------------------------------------------------------------
(* _summarize_points: the model response and the validity gate *)

Keys == <<"what", "so_what", "who", "watch">>
KeySet == {Keys[i] : i \in 1..Len(Keys)}

\* JSON values of a field: absent key, null, a non-empty array, a string
Missing == [t |-> "missing", s |-> <<>>]
Null    == [t |-> "null", s |-> <<>>]
Array   == [t |-> "array", s |-> <<>>]
Str(chunks) == [t |-> "str", s |-> chunks]

Empty             == Str(<<>>)
Fact              == Str(<<"cut 25bp">>)
NotStated         == Str(<<"not stated">>)
InsufficientFacts == Str(<<"Insuf", "ficient", " facts">>)
InsufficientOther == Str(<<"Insuf", "ficient", " liquidity">>)

\* lines 68-73 and 76-81
Sentinel == [k \in KeySet |-> InsufficientFacts]

\* Python truthiness of data.get(k)
Falsy(v) == v.t \in {"missing", "null"} \/ (v.t = "str" /\ v.s = <<>>)

\* sum(1 for k in (...) if not data.get(k))
RECURSIVE CountFalsy(_, _)
CountFalsy(d, i) ==
    IF i > Len(Keys) THEN 0
    ELSE (IF Falsy(d[Keys[i]]) THEN 1 ELSE 0) + CountFalsy(d, i + 1)

\* "not data" for a parsed JSON object: the object has no key at all
EmptyDict(d) == \A k \in KeySet : d[k].t = "missing"

\* line 66 with the threshold off by one: only four empty fields count
bad_four_empty(d) == EmptyDict(d) \/ CountFalsy(d, 1) > 3

\* line 66
bad(d) == EmptyDict(d) \/ CountFalsy(d, 1) >= 3

Returned(v) == [raised |-> FALSE, value |-> v]
Raised      == [raised |-> TRUE, value |-> None]

\* lines 57-81.  r is what the chat-completion call does: it raises
\* (kind "transport_error"), or it returns a content that json.loads rejects
\* ("invalid_json"), that parses to something other than an object
\* ("not_object"), or that parses to an object ("object", with fields d).
\* The call at line 57 stands before the try of line 64.
_summarize_points(r) ==
    CASE r.kind = "transport_error" -> Raised
      [] r.kind = "invalid_json"    -> Returned(Sentinel)
      [] r.kind = "not_object"      -> Returned(Sentinel)
      [] OTHER -> IF bad(r.d) THEN Returned(Sentinel) ELSE Returned(r.d)

\* "".join(summary.values()): the values in key order, absent keys skipped;
\* str.join raises TypeError on a value that is not a str
RECURSIVE JoinFrom(_, _)
JoinFrom(d, i) ==
    IF i > Len(Keys) THEN <<>>
    ELSE (IF d[Keys[i]].t = "missing" THEN <<>> ELSE d[Keys[i]].s) \o JoinFrom(d, i + 1)

JoinValues(d) ==
    IF \E k \in KeySet : d[k].t \notin {"missing", "str"}
    THEN Raised
    ELSE Returned(JoinFrom(d, 1))

\* needle in haystack, on chunk sequences
Contains(haystack, needle) ==
    \E i \in 1..(Len(haystack) - Len(needle) + 1) :
        SubSeq(haystack, i, i + Len(needle) - 1) = needle

Insufficient == <<"Insuf", "ficient">>

\* line 142 / 163: "Insufficient" not in "".join(summary.values())
ScanClean(joined) == ~Contains(joined, Insufficient)

Obj(what, so_what, who, watch) ==
    [kind |-> "object",
     d    |-> [k \in KeySet |-> CASE k = "what"    -> what
                                  [] k = "so_what" -> so_what
                                  [] k = "who"     -> who
                                  [] OTHER         -> watch]]

NoFields == [k \in KeySet |-> Missing]

TransportError == [kind |-> "transport_error", d |-> NoFields]
InvalidJson    == [kind |-> "invalid_json", d |-> NoFields]
NotObject      == [kind |-> "not_object", d |-> NoFields]

\* what the chat-completion call may do in a run
Responses ==
    { TransportError, InvalidJson, NotObject,
      Obj(Fact, Fact, NotStated, Fact),
      Obj(Fact, Empty, Fact, Missing),
      Obj(Empty, Empty, Empty, Empty),
      Obj(Fact, Missing, Missing, Missing),
      Obj(Missing, Missing, Missing, Missing),
      Obj(InsufficientFacts, InsufficientFacts, InsufficientFacts, InsufficientFacts),
      Obj(InsufficientOther, Fact, Fact, Fact),
      Obj(Fact, InsufficientFacts, Fact, Fact),
      Obj(Fact, Null, Fact, Fact),
      Obj(Fact, Fact, Array, Fact) }

\* what the chat-completion call may return to the extractor under test
FieldValues == {Missing, Null, Array, Empty, Fact, InsufficientFacts}
GateResponses ==
    { TransportError, InvalidJson, NotObject }
    \cup { [kind |-> "object", d |-> d] : d \in [KeySet -> FieldValues] }

----------------------------------------------------------------------------
(* main() *)

\* render_topic_section(f"{topic} (Deep)", [a.title for a in top], summary)
Section(topic, kind, articles, s) ==
    [part |-> "section", title |-> <<topic, kind>>, titles |-> Titles(articles),
     summary |-> s]

\* lines 204-209
MdParts ==
    <<[part |-> "title"], [part |-> "market", md |-> snapshot_md]>>
    \o sections
    \o <<[part |-> "briefs", items |-> appendix_items]>>

\* what get_snapshot / snapshot_to_md / OpenAI() may do
SetupOutcomes == {"ok", "get_snapshot", "openai_client"}

\* lines 94-98 with the exception swallowed: the run goes on without a snapshot
AfterSetup_swallowed(outcome) == "fetch"

\* lines 86-103: an exception of get_snapshot (95) or of the client
\* constructor (98) leaves main()
AfterSetup(outcome) == IF outcome = "ok" THEN "fetch" ELSE "aborted"

\* line 182 with the slice dropped: every stale article is appended
StaleFallback_unbounded(b) == IF APPEND_STALE THEN b.stale ELSE <<>>

\* lines 181-182: stale[:3] under APPEND_STALE
StaleFallback(b) == IF APPEND_STALE THEN Take(b.stale, 3) ELSE <<>>

\* lines 192-195 with the APPEND_STALE test dropped
Extras_always_stale(b) == Take(b.recent_sorted, 2) \o Take(b.stale, 2)

\* lines 192-195 with the recent articles left out
Extras_stale_only(b) == IF APPEND_STALE THEN Take(b.stale, 2) ELSE <<>>

\* lines 192-195
Extras(b) ==
    Take(b.recent_sorted, 2) \o (IF APPEND_STALE THEN Take(b.stale, 2) ELSE <<>>)

Init ==
    /\ pc = "start"
    /\ failure = "none"
    /\ APPEND_STALE \in BOOLEAN
    /\ MAX_TOP_SECTIONS \in 0..MaxTop
    /\ snapshot_md = None
    /\ ti = 1
    /\ bundles = <<>>
    /\ engine_stats = [topics |-> 0, recent_used |-> 0, stale_used |-> 0]
    /\ selected = <<>>
    /\ bi = 1
    /\ sections = <<>>
    /\ appendix_items = <<>>
    /\ LLM_USED = FALSE
    /\ summary = None
    /\ llm_calls = <<>>
    /\ fetch_calls = <<>>
    /\ report = <<>>
    /\ resp = None
    /\ buckets = None

\* lines 86-103
GetSnapshot ==
    /\ pc = "start"
    /\ \E outcome \in SetupOutcomes :
        /\ pc' = AfterSetup(outcome)
        /\ failure' = IF outcome = "ok" THEN "none" ELSE outcome
        /\ snapshot_md' = IF outcome = "get_snapshot" THEN snapshot_md
                          ELSE [t |-> "str", s |-> <<"snapshot">>]
    /\ UNCHANGED <<APPEND_STALE, MAX_TOP_SECTIONS, ti, bundles, engine_stats,
                   selected, bi, sections, appendix_items, LLM_USED, summary,
                   llm_calls, fetch_calls, report, resp, buckets>>

\* lines 105-124, one iteration; fetch_topic returns one of `results`
FetchTopicFrom(results) ==
    /\ pc = "fetch"
    /\ ti <= Len(TOPICS)
    /\ fetch_calls' = Append(fetch_calls, TOPICS[ti])
    /\ \E fetched \in results :
        /\ buckets' = fetched
        /\ bundles' = Append(bundles, MakeBundle(TOPICS[ti], fetched))
        /\ engine_stats' =
             [topics      |-> engine_stats.topics + 1,
              recent_used |-> engine_stats.recent_used + Len(fetched.recent),
              stale_used  |-> engine_stats.stale_used + Len(fetched.stale)]
    /\ ti' = ti + 1
    /\ UNCHANGED <<pc, failure, APPEND_STALE, MAX_TOP_SECTIONS, snapshot_md,
                   selected, bi, sections, appendix_items, LLM_USED, summary,
                   llm_calls, report, resp>>

\* lines 105-124, one iteration
FetchTopic == FetchTopicFrom(FetchResults(ti))

\* line 107, fetch_topic raises: nothing in main() catches it
FetchTopicRaises ==
    /\ pc = "fetch"
    /\ ti <= Len(TOPICS)
    /\ fetch_calls' = Append(fetch_calls, TOPICS[ti])
    /\ pc' = "aborted"
    /\ failure' = "fetch_topic"
    /\ UNCHANGED <<APPEND_STALE, MAX_TOP_SECTIONS, snapshot_md, ti, bundles,
                   engine_stats, selected, bi, sections, appendix_items,
                   LLM_USED, summary, llm_calls, report, resp, buckets>>

\* lines 126-131
RankTopics ==
    /\ pc = "fetch"
    /\ ti > Len(TOPICS)
    /\ bundles' = SortBundles(bundles)
    /\ selected' = SelectTop(bundles', MAX_TOP_SECTIONS)
    /\ sections' = <<>>
    /\ appendix_items' = <<>>
    /\ bi' = 1
    /\ pc' = "compose"
    /\ UNCHANGED <<failure, APPEND_STALE, MAX_TOP_SECTIONS, snapshot_md, ti,
                   engine_stats, LLM_USED, summary, llm_calls, fetch_calls,
                   report, resp, buckets>>

\* lines 143 / 164 moved ahead of the test of line 142 / 163
UsedAfter_any_summary(used, emit) == TRUE

\* lines 143 / 164: LLM_USED = True in the branch that emits a Section
UsedAfter(used, emit) == used \/ emit

\* lines 141-158 (kind "(Deep)", top = recent_sorted[:2]) and
\* lines 162-179 (kind "(Short)", top = recent_sorted[:1])
Narrative(b, top, kind) ==
    \E r \in Responses :
        LET out    == _summarize_points(r)
            joined == IF out.raised THEN Raised ELSE JoinValues(out.value)
            passed == ~out.raised /\ ~joined.raised
            emit   == passed /\ ScanClean(joined.value)
        IN  /\ llm_calls' = Append(llm_calls,
                               [topic    |-> b.topic,
                                evidence |-> Titles(Take(top, 3)),
                                dates    |-> PromptDates(Take(top, 3))])
            /\ pc' = IF passed THEN "compose" ELSE "aborted"
            /\ failure' = IF out.raised THEN "chat_completion"
                          ELSE IF joined.raised THEN "join" ELSE "none"
            /\ summary' = IF out.raised THEN summary ELSE out.value
            /\ sections' = IF emit
                           THEN Append(sections, Section(b.topic, kind, top, out.value))
                           ELSE sections
            /\ appendix_items' = IF passed /\ ~emit
                                 THEN appendix_items \o AppendixItems(top)
                                 ELSE appendix_items
            /\ LLM_USED' = UsedAfter(LLM_USED, emit)
            /\ bi' = IF passed THEN bi + 1 ELSE bi

\* lines 133-188, one iteration
ComposeSection ==
    /\ pc = "compose"
    /\ bi <= Len(selected)
    /\ LET b == selected[bi] IN
        IF Len(b.recent_sorted) >= 2
        THEN Narrative(b, Take(b.recent_sorted, 2), "(Deep)")
        ELSE IF Len(b.recent_sorted) = 1
        THEN Narrative(b, Take(b.recent_sorted, 1), "(Short)")
        ELSE /\ appendix_items' = appendix_items \o AppendixItems(StaleFallback(b))
             /\ bi' = bi + 1
             /\ UNCHANGED <<pc, failure, sections, LLM_USED, summary, llm_calls>>
    /\ UNCHANGED <<APPEND_STALE, MAX_TOP_SECTIONS, snapshot_md, ti, bundles,
                   engine_stats, selected, fetch_calls, report, resp, buckets>>

\* lines 190-202, one iteration over bundles[MAX_TOP_SECTIONS:]
CollectOverflow ==
    /\ pc = "compose"
    /\ bi > Len(selected)
    /\ bi - Len(selected) <= Len(Overflow(bundles, MAX_TOP_SECTIONS))
    /\ LET b == Overflow(bundles, MAX_TOP_SECTIONS)[bi - Len(selected)] IN
        appendix_items' = appendix_items \o AppendixItems(Extras(b))
    /\ bi' = bi + 1
    /\ UNCHANGED <<pc, failure, APPEND_STALE, MAX_TOP_SECTIONS, snapshot_md, ti,
                   bundles, engine_stats, selected, sections, LLM_USED, summary,
                   llm_calls, fetch_calls, report, resp, buckets>>

\* lines 204-219
WriteReport ==
    /\ pc = "compose"
    /\ bi > Len(selected) + Len(Overflow(bundles, MAX_TOP_SECTIONS))
    /\ report' = MdParts
    /\ pc' = "done"
    /\ UNCHANGED <<failure, APPEND_STALE, MAX_TOP_SECTIONS, snapshot_md, ti,
                   bundles, engine_stats, selected, bi, sections, appendix_items,
                   LLM_USED, summary, llm_calls, fetch_calls, resp, buckets>>

Next ==
    \/ GetSnapshot
    \/ FetchTopic
    \/ FetchTopicRaises
    \/ RankTopics
    \/ ComposeSection
    \/ CollectOverflow
    \/ WriteReport

Spec == Init /\ [][Next]_vars

----------------------------------------------------------------------------
(* The extractor alone: _summarize_points applied to every response shape *)

Defaults ==
    /\ failure = "none"
    /\ snapshot_md = None
    /\ engine_stats = [topics |-> 0, recent_used |-> 0, stale_used |-> 0]
    /\ selected = <<>>
    /\ bi = 1
    /\ sections = <<>>
    /\ appendix_items = <<>>
    /\ LLM_USED = FALSE
    /\ summary = None
    /\ llm_calls = <<>>
    /\ report = <<>>
    /\ buckets = None

ExtractorInit ==
    /\ Defaults
    /\ pc = "extract"
    /\ APPEND_STALE = TRUE
    /\ MAX_TOP_SECTIONS = 10
    /\ ti = 1
    /\ bundles = <<>>
    /\ fetch_calls = <<>>
    /\ resp \in GateResponses

\* lines 57-81: one call of _summarize_points
Extract ==
    /\ pc = "extract"
    /\ LET out == _summarize_points(resp) IN
        /\ pc' = IF out.raised THEN "aborted" ELSE "returned"
        /\ failure' = IF out.raised THEN "chat_completion" ELSE "none"
        /\ summary' = IF out.raised THEN summary ELSE out.value
    /\ UNCHANGED <<APPEND_STALE, MAX_TOP_SECTIONS, snapshot_md, ti, bundles,
                   engine_stats, selected, bi, sections, appendix_items,
                   LLM_USED, llm_calls, fetch_calls, report, resp, buckets>>

ExtractorSpec == ExtractorInit /\ [][Extract]_vars

----------------------------------------------------------------------------
(* The topic selector alone: lines 126-131 applied to any sequence of bundles *)

TopicName(i) == <<"topic", ToString(i)>>

\* bundles whose topic_score is 0 (no recent article), 3 and 9
BundleOf(i, n) ==
    MakeBundle(TopicName(i), [recent |-> ArticleRun(1, n), stale |-> <<>>])

BundleSeqs ==
    UNION { { [i \in 1..len |-> BundleOf(i, f[i])] : f \in [1..len -> 0..2] } :
            len \in 0..MaxBundles }

SelectorInit ==
    /\ Defaults
    /\ pc = "fetch"
    /\ APPEND_STALE = TRUE
    /\ MAX_TOP_SECTIONS \in 0..MaxTop
    /\ ti = Len(TOPICS) + 1
    /\ bundles \in BundleSeqs
    /\ fetch_calls = [i \in 1..Len(bundles) |-> bundles[i].topic]
    /\ resp = None

SelectorSpec == SelectorInit /\ [][RankTopics]_vars

----------------------------------------------------------------------------
(* Claims *)

Last(seq) == seq[Len(seq)]

\* the fields of a parsed response that are empty, falsy or missing
EmptyFields(d) == {k \in KeySet : d[k] \in {Missing, Null, Empty}}

\* C1: when the chat-completion call fails with a transport/protocol failure,
\* _summarize_points does not raise past its boundary: it returns the Summary
\* whose four fields are all "Insufficient facts".
C1_TransportFailureReturnsSentinel ==
    (pc # "extract" /\ resp.kind = "transport_error")
        => (pc = "returned" /\ failure = "none" /\ summary = Sentinel)

\* C2: once the snapshot is acquired, a failing fetch_topic does not abort the
\* run: every topic whose fetch was issued gets a bundle (an empty one with
\* topic_score 0 when the fetch failed), and no run ends on a fetch failure.
C2_FetchFailureDoesNotAbort ==
    /\ failure # "fetch_topic"
    /\ Len(bundles) = Len(fetch_calls)

\* C3: when market-snapshot acquisition fails the run is aborted at that
\* point: no article fetch and no extraction call has been issued, nothing has
\* been composed and no report file is written.
C3_SnapshotFailureAborts ==
    failure = "get_snapshot"
        => /\ pc = "aborted"
           /\ fetch_calls = <<>>
           /\ llm_calls = <<>>
           /\ bundles = <<>>
           /\ sections = <<>>
           /\ appendix_items = <<>>
           /\ report = <<>>

C3_Witness == failure = "get_snapshot" /\ pc = "aborted"

\* C4: for every combination of emptiness of what, so_what, who, watch in a
\* parsed object, _summarize_points returns the all-"Insufficient facts"
\* Summary when 3 or 4 fields are empty, falsy or missing, and the parsed
\* object unchanged when at most 2 are.
C4_ValidityGate ==
    (pc # "extract" /\ resp.kind = "object")
        => /\ pc = "returned"
           /\ Cardinality(EmptyFields(resp.d)) >= 3 => summary = Sentinel
           /\ Cardinality(EmptyFields(resp.d)) <= 2 => summary = resp.d

C4_Witness ==
    /\ pc = "returned"
    /\ resp.kind = "object"
    /\ Cardinality(EmptyFields(resp.d)) = 3
    /\ resp.d["who"] = Fact
    /\ summary = Sentinel

\* the entries appended to appendix_items by the step
NewItems == SubSeq(appendix_items', Len(appendix_items) + 1, Len(appendix_items'))

\* appendix_items only grew in the step
ItemsKept ==
    /\ Len(appendix_items') >= Len(appendix_items)
    /\ SubSeq(appendix_items', 1, Len(appendix_items)) = appendix_items

\* items are the link entries of exactly these articles, in this order
ItemsOf(items, articles) ==
    /\ Len(items) = Len(articles)
    /\ \A k \in 1..Len(items) :
         items[k].title = articles[k].title /\ items[k].url = articles[k].url

\* the step is an iteration of the loop at line 133 on a selected bundle
\* with the given number of recent articles, and it ran to its end
ComposeStepDone(lo, hi) ==
    /\ pc = "compose" /\ pc' = "compose"
    /\ bi <= Len(selected)
    /\ Len(selected[bi].recent_sorted) \in lo..hi

\* the step issued exactly one extraction request, for the topic and evidence
OneCall(topic, evidence) ==
    /\ Len(llm_calls') = Len(llm_calls) + 1
    /\ SubSeq(llm_calls', 1, Len(llm_calls)) = llm_calls
    /\ Last(llm_calls').topic = topic
    /\ Last(llm_calls').evidence = Titles(evidence)

\* the step emitted exactly one Section
OneSection(topic, kind, evidence) ==
    /\ Len(sections') = Len(sections) + 1
    /\ SubSeq(sections', 1, Len(sections)) = sections
    /\ Last(sections').title = <<topic, kind>>
    /\ Last(sections').titles = Titles(evidence)
    /\ Last(sections').summary = summary'

\* C5: for a selected bundle with 2 or more recent articles the extractor is
\* called with the top 2 by score; when the returned Summary is not the
\* all-"Insufficient facts" sentinel (a Summary with only some such fields
\* included) exactly one "<topic> (Deep)" Section with those two titles,
\* higher score first, is emitted and nothing is appended; otherwise no
\* Section is emitted and exactly those two articles are appended.
C5_DeepOrAppendix ==
    [][ ComposeStepDone(2, MaxRecent + 1) =>
          LET b   == selected[bi]
              top == <<b.recent_sorted[1], b.recent_sorted[2]>>
          IN  /\ top[1].score >= top[2].score
              /\ \A k \in 3..Len(b.recent_sorted) : b.recent_sorted[k].score <= top[2].score
              /\ OneCall(b.topic, top)
              /\ IF summary' # Sentinel
                 THEN OneSection(b.topic, "(Deep)", top) /\ appendix_items' = appendix_items
                 ELSE sections' = sections /\ ItemsKept /\ ItemsOf(NewItems, top) ]_vars

\* C6: for a selected bundle with exactly 1 recent article the extractor is
\* called with that article; when the result is valid under the validity gate
\* (not the sentinel, at most 2 empty fields) exactly one "<topic> (Short)"
\* Section with that title is emitted and nothing is appended; otherwise no
\* Section is emitted and exactly that article is appended.
C6_ShortOrAppendix ==
    [][ ComposeStepDone(1, 1) =>
          LET b   == selected[bi]
              one == <<b.recent_sorted[1]>>
          IN  /\ OneCall(b.topic, one)
              /\ IF summary' # Sentinel /\ Cardinality(EmptyFields(summary')) <= 2
                 THEN OneSection(b.topic, "(Short)", one) /\ appendix_items' = appendix_items
                 ELSE sections' = sections /\ ItemsKept /\ ItemsOf(NewItems, one) ]_vars

\* C7: for a selected bundle with no recent article no extraction request is
\* issued and no Section is emitted; with stale-fallback enabled exactly the
\* first min(3, number of stale articles) stale articles are appended, in
\* source order; with it disabled nothing is appended.
C7_ZeroRecentStaleFallback ==
    [][ (pc = "compose" /\ bi <= Len(selected) /\ selected[bi].recent_sorted = <<>>) =>
          LET b == selected[bi] IN
              /\ pc' = "compose"
              /\ llm_calls' = llm_calls
              /\ sections' = sections
              /\ LLM_USED' = LLM_USED
              /\ ItemsKept
              /\ IF APPEND_STALE
                 THEN ItemsOf(NewItems, SubSeq(b.stale, 1, Min(3, Len(b.stale))))
                 ELSE NewItems = <<>> ]_vars

C7_Witness ==
    /\ pc = "compose"
    /\ bi = 2
    /\ Len(selected) >= 1
    /\ selected[1].recent_sorted = <<>>
    /\ Len(selected[1].stale) > 3
    /\ APPEND_STALE
    /\ Len(appendix_items) = 3
    /\ appendix_items[3].title = selected[1].stale[3].title

\* C8: a bundle ranked behind the first MAX_TOP_SECTIONS is never passed to the
\* extractor and yields no Section, whatever its number of recent articles;
\* it contributes exactly its first min(2, |recent_sorted|) recent articles
\* followed, only with stale-fallback enabled, by its first min(2, |stale|)
\* stale articles.
C8_OverflowLinksOnly ==
    /\ [](pc \in {"compose", "done"} =>
            \A k \in 1..Len(bundles) : \A c \in 1..Len(llm_calls) :
                k > MAX_TOP_SECTIONS => llm_calls[c].topic # bundles[k].topic)
    /\ [][ (pc = "compose" /\ bi > MAX_TOP_SECTIONS /\ bi <= Len(bundles)) =>
             LET b == bundles[bi] IN
                 /\ pc' = "compose"
                 /\ llm_calls' = llm_calls
                 /\ sections' = sections
                 /\ ItemsKept
                 /\ ItemsOf(NewItems,
                            SubSeq(b.recent_sorted, 1, Min(2, Len(b.recent_sorted)))
                            \o (IF APPEND_STALE
                                THEN SubSeq(b.stale, 1, Min(2, Len(b.stale)))
                                ELSE <<>>)) ]_vars

C8_Witness ==
    /\ pc = "compose"
    /\ MAX_TOP_SECTIONS = 1
    /\ bi = 3
    /\ Len(bundles[2].recent_sorted) > 2
    /\ Len(bundles[2].stale) > 2
    /\ APPEND_STALE
    /\ sections # <<>>
    /\ Len(appendix_items) = 4

\* C9: no article whose title is evidence of an emitted Section is also an
\* entry of appendix_items in the same run.
C9_SectionXorAppendix ==
    \A i \in 1..Len(sections) : \A t \in 1..Len(sections[i].titles) :
        \A j \in 1..Len(appendix_items) :
            appendix_items[j].title # sections[i].titles[t]

\* the bijections of 1..n
Bijections(n) == {p \in [1..n -> 1..n] : \A i, j \in 1..n : p[i] = p[j] => i = j}

\* out is seq in descending order of topic_score, ties in the order of seq
StableDescOf(out, seq) ==
    /\ Len(out) = Len(seq)
    /\ \E p \in Bijections(Len(seq)) :
         /\ \A i \in 1..Len(seq) : out[i] = seq[p[i]]
         /\ \A i, j \in 1..Len(seq) :
              i < j => \/ out[i].topic_score > out[j].topic_score
                       \/ out[i].topic_score = out[j].topic_score /\ p[i] < p[j]

\* C10: for every MAX_TOP_SECTIONS >= 0 and every sequence of bundles, selected
\* is the first MAX_TOP_SECTIONS elements of the bundles sorted descending by
\* topic_score with ties in configuration order, overflow is the remainder,
\* the two lengths add up to the number of bundles, and every bundle is in
\* exactly one of the two.
C10_SelectorPartition ==
    [][ (pc = "fetch" /\ pc' = "compose") =>
          LET overflow == Overflow(bundles', MAX_TOP_SECTIONS) IN
              /\ StableDescOf(bundles', bundles)
              /\ selected' = SubSeq(bundles', 1, Min(MAX_TOP_SECTIONS, Len(bundles)))
              /\ selected' \o overflow = bundles'
              /\ Len(selected') + Len(overflow) = Len(bundles)
              /\ \A k \in 1..Len(bundles) :
                   Cardinality({i \in 1..Len(selected') : selected'[i] = bundles[k]})
                   + Cardinality({i \in 1..Len(overflow) : overflow[i] = bundles[k]}) = 1 ]_vars

C10_Witness ==
    /\ pc = "compose"
    /\ MAX_TOP_SECTIONS = 2
    /\ Len(bundles) = 4
    /\ Len(selected) = 2
    /\ fetch_calls[1] = bundles[3].topic
    /\ bundles[1].topic_score = 9
    /\ bundles[2].topic_score = 9
    /\ bundles[1].topic = fetch_calls[2]
    /\ bundles[2].topic = fetch_calls[4]

----------------------------------------------------------------------------
(* The topic bundler alone: lines 105-124 applied to any recent list *)

\* two articles of equal score and one of a higher score
SortArticles == {Article(1), Article(2), Article(4)}

SortInputs ==
    { [recent |-> r, stale |-> st] :
        r  \in UNION { [1..n -> SortArticles] : n \in 0..MaxSortLen },
        st \in { <<>>, <<Article(2), Article(3)>>, <<Article(3), Article(2)>> } }

BundlerInit ==
    /\ Defaults
    /\ pc = "fetch"
    /\ APPEND_STALE = TRUE
    /\ MAX_TOP_SECTIONS = 10
    /\ ti = 1
    /\ bundles = <<>>
    /\ fetch_calls = <<>>
    /\ resp = None

\* lines 105-124, one iteration
BundleTopic == FetchTopicFrom(SortInputs)

BundlerSpec == BundlerInit /\ [][BundleTopic]_vars

\* the scores of a sequence of articles, in order
Scores(seq) == [k \in 1..Len(seq) |-> seq[k].score]

\* the articles of seq with the given score, in the order of seq
WithScore(seq, v) == SelectSeq(seq, LAMBDA a : a.score = v)

\* a and b hold the same articles the same number of times
SameArticles(a, b) ==
    /\ Len(a) = Len(b)
    /\ \A x \in {a[i] : i \in 1..Len(a)} \cup {b[i] : i \in 1..Len(b)} :
         Cardinality({i \in 1..Len(a) : a[i] = x}) = Cardinality({i \in 1..Len(b) : b[i] = x})

NonIncreasing(seq) == \A i \in 1..(Len(seq) - 1) : seq[i].score >= seq[i + 1].score

\* C11: recent_sorted is a permutation of the fetched recent list in
\* non-increasing order of score, and articles of equal score keep their fetch
\* order.
C11_RecentSortedStable ==
    (pc = "fetch" /\ bundles # <<>>) =>
        LET out == Last(bundles).recent_sorted
            in  == buckets.recent
        IN  /\ SameArticles(out, in)
            /\ NonIncreasing(out)
            /\ \A v \in {in[i].score : i \in 1..Len(in)} : WithScore(out, v) = WithScore(in, v)

C11_Witness ==
    /\ pc = "fetch"
    /\ bundles # <<>>
    /\ buckets.recent = <<Article(1), Article(2), Article(4)>>
    /\ Last(bundles).recent_sorted = <<Article(2), Article(1), Article(4)>>

\* C12 as stated: two recent lists that are permutations of one another give
\* the same recent_sorted, article by article, and the same top 2.
C12_ReorderingKeepsSorted ==
    (pc = "fetch" /\ Len(bundles) = 2 /\ SameArticles(buckets.recent, bundles[1].recent_sorted))
        => /\ bundles[2].recent_sorted = bundles[1].recent_sorted
           /\ Take(bundles[2].recent_sorted, 2) = Take(bundles[1].recent_sorted, 2)

\* no two positions of seq hold the same score
DistinctScores(seq) ==
    \A i, j \in 1..Len(seq) : seq[i].score = seq[j].score => i = j

\* C12 as amended: two recent lists that are permutations of one another give
\* the same sequence of scores in recent_sorted; they give the same
\* recent_sorted, and the same top 2, when no two of their articles have the
\* same score.
C12_ReorderingKeepsScores ==
    (pc = "fetch" /\ Len(bundles) = 2 /\ SameArticles(buckets.recent, bundles[1].recent_sorted))
        => /\ Scores(bundles[2].recent_sorted) = Scores(bundles[1].recent_sorted)
           /\ DistinctScores(buckets.recent) =>
                /\ bundles[2].recent_sorted = bundles[1].recent_sorted
                /\ Take(bundles[2].recent_sorted, 2) = Take(bundles[1].recent_sorted, 2)

C12_Witness ==
    /\ pc = "fetch"
    /\ Len(bundles) = 2
    /\ buckets.recent = <<Article(1), Article(2)>>
    /\ bundles[1].recent_sorted = <<Article(2), Article(1)>>
    /\ bundles[2].recent_sorted = <<Article(2), Article(1)>>

\* C13: topic_score is the score of recent_sorted[0], the largest score of the
\* fetched recent articles, and 0 for an empty recent list; bundling an empty
\* list does not fail; topic_score is the same whatever the stale list is.
C13_TopicScore ==
    /\ pc = "fetch" /\ failure = "none" /\ Len(bundles) = Len(fetch_calls)
    /\ \A k \in 1..Len(bundles) :
         LET b == bundles[k] IN
             IF b.recent_sorted = <<>> THEN b.topic_score = 0
             ELSE /\ b.topic_score = b.recent_sorted[1].score
                  /\ \A i \in 1..Len(b.recent_sorted) : b.recent_sorted[i].score <= b.topic_score
    /\ bundles # <<>> =>
         /\ buckets.recent = <<>> => Last(bundles).topic_score = 0
         /\ \A i \in 1..Len(buckets.recent) : buckets.recent[i].score <= Last(bundles).topic_score
         /\ buckets.recent # <<>> =>
              \E i \in 1..Len(buckets.recent) : buckets.recent[i].score = Last(bundles).topic_score
    /\ (Len(bundles) = 2 /\ SameArticles(bundles[1].recent_sorted, bundles[2].recent_sorted))
         => bundles[1].topic_score = bundles[2].topic_score

C13_Witness ==
    /\ Len(bundles) = 2
    /\ bundles[1].recent_sorted = <<>>
    /\ bundles[1].topic_score = 0
    /\ buckets.recent = <<Article(1), Article(2)>>
    /\ bundles[2].topic_score = 9
    /\ bundles[2].stale = <<Article(3), Article(2)>>

\* the titles of the articles fetched for a bundle
BundleTitles(b) ==
    {b.recent_sorted[i].title : i \in 1..Len(b.recent_sorted)}
    \cup {b.stale[i].title : i \in 1..Len(b.stale)}

\* the report shows something of the bundle: a Section of its topic, or a link
\* to one of its articles
HasSurface(b, secs, items) ==
    \/ \E i \in 1..Len(secs) : secs[i].title[1] = b.topic
    \/ \E j \in 1..Len(items) : items[j].title \in BundleTitles(b)

\* C14 as stated: at the end of every completed run each configured topic has
\* at least one Section or at least one appendix entry of its articles.
C14_EveryTopicVisible ==
    pc = "done" =>
        /\ Len(bundles) = Len(TOPICS)
        /\ \A k \in 1..Len(bundles) : HasSurface(bundles[k], sections, appendix_items)

\* the bundle has a recent article, or a stale one with stale-fallback enabled
HasLinkable(b) == b.recent_sorted # <<>> \/ (APPEND_STALE /\ b.stale # <<>>)

\* C14 as amended: at the end of every completed run each configured topic
\* that has a recent article, or a stale article while stale-fallback is
\* enabled, has at least one Section or at least one appendix entry of its
\* articles; the iteration that handles its bundle emits that Section or
\* appends that entry.
C14_LinkableTopicVisible ==
    /\ [](pc = "done" =>
            /\ Len(bundles) = Len(TOPICS)
            /\ \A k \in 1..Len(bundles) :
                 HasLinkable(bundles[k]) => HasSurface(bundles[k], sections, appendix_items))
    /\ [][ (pc = "compose" /\ pc' = "compose" /\ bi <= Len(bundles) /\ HasLinkable(bundles[bi])) =>
             /\ ItemsKept
             /\ HasSurface(bundles[bi],
                           SubSeq(sections', Len(sections) + 1, Len(sections')),
                           NewItems) ]_vars

C14_Witness ==
    /\ pc = "done"
    /\ MAX_TOP_SECTIONS = 1
    /\ Len(sections) = 1
    /\ bundles[2].recent_sorted = <<>>
    /\ bundles[2].stale # <<>>
    /\ APPEND_STALE
    /\ appendix_items # <<>>
    /\ report # <<>>

\* C15 as stated: every Summary carried by an emitted Section has its four
\* fields present and non-empty.
C15_SectionFieldsNonEmpty ==
    \A i \in 1..Len(sections) :
        \A k \in KeySet :
            sections[i].summary[k].t = "str" /\ sections[i].summary[k].s # <<>>

\* C15 as amended: every Summary carried by an emitted Section has at most 2
\* of its four fields empty or missing, and each of its other fields is a
\* non-empty string.
C15_SectionFieldsMostlyNonEmpty ==
    \A i \in 1..Len(sections) :
        /\ Cardinality(EmptyFields(sections[i].summary)) <= 2
        /\ \A k \in KeySet \ EmptyFields(sections[i].summary) :
             sections[i].summary[k].t = "str" /\ sections[i].summary[k].s # <<>>

C15_Witness ==
    /\ pc = "done"
    /\ Len(sections) >= 1
    /\ sections[1].summary["so_what"] = Empty
    /\ sections[1].summary["watch"] = Missing
    /\ sections[1].summary["what"] = Fact

\* the position of a topic's bundle in bundles
RankOf(topic) == CHOOSE k \in 1..Len(bundles) : bundles[k].topic = topic

\* C16: extraction requests are issued one at a time, in selection rank order,
\* and only after every topic is fetched, bundled and ranked; the Sections
\* are in rank order; the written report is the title, the market section,
\* the Sections in that order, then the briefs block.
C16_RankOrder ==
    /\ [](llm_calls # <<>> =>
            /\ pc \in {"compose", "done", "aborted"}
            /\ Len(fetch_calls) = Len(TOPICS)
            /\ Len(bundles) = Len(TOPICS)
            /\ \A k \in 1..(Len(bundles) - 1) :
                 bundles[k].topic_score >= bundles[k + 1].topic_score)
    /\ [](\A i, j \in 1..Len(llm_calls) :
            i < j => RankOf(llm_calls[i].topic) < RankOf(llm_calls[j].topic))
    /\ [](\A i, j \in 1..Len(sections) :
            i < j => RankOf(sections[i].title[1]) < RankOf(sections[j].title[1]))
    /\ [](pc = "done" =>
            /\ Len(report) = Len(sections) + 3
            /\ report[1].part = "title"
            /\ report[2].part = "market"
            /\ SubSeq(report, 3, Len(sections) + 2) = sections
            /\ Last(report).part = "briefs"
            /\ Last(report).items = appendix_items)
    /\ [][ /\ Len(llm_calls') <= Len(llm_calls) + 1
           /\ Len(llm_calls') > Len(llm_calls) => pc = "compose" ]_vars

C16_Witness ==
    /\ pc = "done"
    /\ Len(llm_calls) = 2
    /\ Len(sections) = 2
    /\ bundles[1].topic = TOPICS[2]
    /\ bundles[1].topic_score > bundles[2].topic_score
    /\ sections[1].title = <<TOPICS[2], "(Deep)">>
    /\ sections[2].title = <<TOPICS[1], "(Short)">>
    /\ Len(report) = 5

\* C17: LLM_USED, as logged at the end of the run, is true exactly when a Deep
\* or Short Section was emitted; it starts false, is never reset, and stays
\* false when every extraction ended in the appendix fallback.
C17_ModelUsedFlag ==
    /\ [](LLM_USED <=> sections # <<>>)
    /\ [](pc \in {"start", "fetch"} => ~LLM_USED)
    /\ [](pc = "done" =>
            (LLM_USED <=> \E k \in 1..Len(report) : report[k].part = "section"))
    /\ [][LLM_USED => LLM_USED']_vars

C17_Witness ==
    /\ pc = "done"
    /\ Len(llm_calls) = 2
    /\ Len(sections) = 1
    /\ sections[1].title[1] = bundles[1].topic
    /\ appendix_items # <<>>
    /\ LLM_USED

\* the articles fetched in this run
Fetched ==
    UNION { {b.recent_sorted[k] : k \in 1..Len(b.recent_sorted)}
            \cup {b.stale[k] : k \in 1..Len(b.stale)} :
            b \in {bundles[n] : n \in 1..Len(bundles)} }

\* the date of an article by the three-way priority: published timestamp,
\* else the date segment of the URL, else null
ThreeWayDate(a) ==
    IF a.published_at # None
    THEN [t |-> "str", s |-> <<a.published_at.y, "-", a.published_at.m, "-", a.published_at.d>>]
    ELSE LET hits == {i \in 1..(Len(a.url) - 6) :
                        /\ a.url[i] = "/" /\ a.url[i + 6] = "/"
                        /\ a.url[i + 2] \in {"-", "/"} /\ a.url[i + 4] \in {"-", "/"}
                        /\ a.url[i + 1] \in Years20
                        /\ a.url[i + 3] \in TwoDigits /\ a.url[i + 5] \in TwoDigits}
         IN  IF hits = {} THEN None
             ELSE LET i == CHOOSE j \in hits : \A h \in hits : j <= h
                  IN  [t |-> "str", s |-> <<a.url[i + 1], "-", a.url[i + 3], "-", a.url[i + 5]>>]

\* a null date as the request text spells it
AsRequestText(d) == IF d = None THEN [t |-> "str", s |-> <<"n/a">>] ELSE d

\* every AppendixItem carries the three-way date of the article it links
AppendixDatesThreeWay ==
    \A k \in 1..Len(appendix_items) :
         \E a \in Fetched :
            /\ a.title = appendix_items[k].title
            /\ a.url = appendix_items[k].url
            /\ appendix_items[k].date = ThreeWayDate(a)

\* C18: every AppendixItem's date and every date attached to an evidence
\* article in an extraction request is the article's published date if it has
\* one, otherwise the date segment of its URL if one matches, otherwise null.
C18_DateDerivation ==
    /\ AppendixDatesThreeWay
    /\ \A c \in 1..Len(llm_calls) : \A k \in 1..Len(llm_calls[c].evidence) :
         \A a \in Fetched :
            a.title = llm_calls[c].evidence[k]
                => llm_calls[c].dates[k] = AsRequestText(ThreeWayDate(a))

\* the number of extraction requests issued for a topic
CallsFor(topic) ==
    Cardinality({c \in 1..Len(llm_calls) : llm_calls[c].topic = topic})

\* no retry and no stray call: every request is the only one for its topic,
\* the topic is ranked within the first MAX_TOP_SECTIONS bundles and has a
\* recent article, and the request carries at most 2 articles
CallsAtMostOnce ==
    /\ Len(llm_calls) <= MAX_TOP_SECTIONS
    /\ \A c \in 1..Len(llm_calls) :
         /\ CallsFor(llm_calls[c].topic) = 1
         /\ Len(llm_calls[c].evidence) \in 1..2
         /\ \E k \in 1..Min(MAX_TOP_SECTIONS, Len(bundles)) :
              /\ bundles[k].topic = llm_calls[c].topic
              /\ bundles[k].recent_sorted # <<>>

\* C19: in every run the Extractor is invoked exactly once for each selected
\* bundle with at least one recent article, never for a selected bundle without
\* recent articles and never for an overflow bundle; so a run makes at most
\* MAX_TOP_SECTIONS requests, each with at most 2 articles.
C19_SingleAttempt ==
    /\ CallsAtMostOnce
    /\ pc \in {"done", "aborted"} =>
         \A k \in 1..Len(selected) :
            CallsFor(selected[k].topic)
                = IF selected[k].recent_sorted # <<>> THEN 1 ELSE 0

\* C20: a topic without recent articles never displaces a topic whose best
\* recent article has a positive score: whenever such a topic is in selected,
\* every topic with a positive topic_score is in selected too, ranked above it.
C20_ZeroRecentNeverDisplaces ==
    \A z \in 1..Len(selected) :
        selected[z].recent_sorted = <<>> =>
            /\ selected[z].topic_score = 0
            /\ \A j \in 1..Len(bundles) :
                 bundles[j].topic_score > 0 =>
                    \E k \in 1..(z - 1) : selected[k] = bundles[j]

C20_Witness ==
    /\ pc = "compose"
    /\ MAX_TOP_SECTIONS = 2
    /\ Len(bundles) = 3
    /\ Len(selected) = 2
    /\ selected[1].topic = fetch_calls[3]
    /\ selected[1].topic_score > 0
    /\ selected[2].topic = fetch_calls[1]
    /\ selected[2].recent_sorted = <<>>
    /\ bundles[3].recent_sorted = <<>>

====
